---- MODULE Spec2Model ----
(***************************************************************************)
(* Model of the beancount date sorter (crates/beancount-formatter).        *)
(*                                                                         *)
(* A file is a string, modelled as a sequence of characters.  A character  *)
(* is either the newline or an atom that stands for the whole body of one  *)
(* line (the text between two newlines):                                   *)
(*   head  - the first line of a dated directive, "<date> ... <tag>"       *)
(*   post  - an indented continuation line of a directive (a posting)      *)
(*   cmt   - a top-level construct without a date (comment, option, ...)   *)
(*   ws    - a run of spaces: the body of a whitespace-only line           *)
(* Rows are 0-indexed as in the source; TLA+ sequences are 1-indexed.      *)
(***************************************************************************)
EXTENDS Integers, Sequences, FiniteSets

VARIABLES
    content,     \* the text handed to Formatter::sort
    tree,        \* the syntax tree of content
    pc,          \* position inside sort_tree_by_date
    pass,        \* first call, or the call on the first call's result
    directives,  \* Vec<DatedDirective>
    groups,      \* Vec<SortableGroup>
    output,      \* the returned String
    path,        \* which return of sort_tree_by_date was taken
    formatter,   \* the Formatter (its compiled queries)
    calls,       \* concurrent sort calls that share the Formatter
    cli,         \* the beancount_sort process
    lsp          \* one formatting request of the language server

vars == <<content, tree, pc, pass, directives, groups, output, path,
          formatter, calls, cli, lsp>>

\* ------------------------------------------------------------------ bounds
MaxLines == 4
MaxDate == 2
\* Longer files over fewer kinds of line (dated directives and blank lines).
MaxLongLines == 5
\* Lines per file when several calls run at once.
MaxConcLines == 2
\* Lines per file, and largest row a node may name, when the tree is not the
\* parse of the text.
MaxBadLines == 2

Tags == {"a", "b"}

\* -------------------------------------------------------------- characters
NL == [k |-> "nl", d |-> 0, t |-> ""]
HeadLine(d, t) == [k |-> "head", d |-> d, t |-> t]
PostLine == [k |-> "post", d |-> 0, t |-> ""]
CmtLine == [k |-> "cmt", d |-> 0, t |-> ""]
WsLine == [k |-> "ws", d |-> 0, t |-> ""]

Heads == {HeadLine(d, t) : d \in 1..MaxDate, t \in Tags}

\* The bodies a line can have: empty, or exactly one atom.
Bodies == {<<>>} \cup {<<a>> : a \in Heads \cup {PostLine, CmtLine, WsLine}}

\* ---------------------------------------------------------- string helpers
Max(a, b) == IF a >= b THEN a ELSE b
Min(a, b) == IF a <= b THEN a ELSE b

\* str::split('\n'): the pieces between newlines (k newlines give k+1 pieces).
RECURSIVE SplitNL(_, _, _)
SplitNL(s, i, cur) ==
    IF i > Len(s) THEN <<cur>>
    ELSE IF s[i] = NL THEN <<cur>> \o SplitNL(s, i + 1, <<>>)
    ELSE SplitNL(s, i + 1, Append(cur, s[i]))

\* str::lines(): the pieces, without the empty piece after a final newline.
StrLines(s) ==
    LET p == SplitNL(s, 1, <<>>)
    IN IF p[Len(p)] = <<>> THEN SubSeq(p, 1, Len(p) - 1) ELSE p

\* [String]::join("\n")
RECURSIVE JoinNL(_)
JoinNL(ss) ==
    IF Len(ss) = 0 THEN <<>>
    ELSE IF Len(ss) = 1 THEN ss[1]
    ELSE ss[1] \o <<NL>> \o JoinNL(Tail(ss))

\* str::trim().is_empty()
TrimIsEmpty(line) == \A i \in 1..Len(line) : line[i].k = "ws"

EndsWithNL(s) == Len(s) > 0 /\ s[Len(s)] = NL
StartsWithNL(s) == Len(s) > 0 /\ s[1] = NL

\* str::trim_start_matches('\n')
RECURSIVE TrimStartNL(_)
TrimStartNL(s) ==
    IF StartsWithNL(s) THEN TrimStartNL(Tail(s)) ELSE s

\* The three orders the source sorts directives by (strict "less" of each).
by_lines_start(a, b) == a.lines_start < b.lines_start
by_original_index(a, b) == a.original_index < b.original_index
\* Mutant: the tie-break taken in reverse, b.original_index.cmp(&a.original_index).
by_date_then_index_reversed_ties(a, b) ==
    \/ a.date < b.date
    \/ a.date = b.date /\ a.original_index > b.original_index

\* a.date.cmp(&b.date).then(a.original_index.cmp(&b.original_index))
by_date_then_index(a, b) ==
    \/ a.date < b.date
    \/ a.date = b.date /\ a.original_index < b.original_index

Less(order, a, b) ==
    CASE order = "lines_start" -> by_lines_start(a, b)
      [] order = "original_index" -> by_original_index(a, b)
      [] order = "date" -> by_date_then_index(a, b)

\* Stable sort (slice::sort_by / sort_by_key), by insertion.
RECURSIVE InsertSorted(_, _, _)
InsertSorted(x, s, order) ==
    IF Len(s) = 0 THEN <<x>>
    ELSE IF Less(order, x, s[1]) THEN <<x>> \o s
    ELSE <<s[1]>> \o InsertSorted(x, Tail(s), order)

RECURSIVE StableSort(_, _)
StableSort(s, order) ==
    IF Len(s) = 0 THEN <<>>
    ELSE InsertSorted(s[Len(s)], StableSort(SubSeq(s, 1, Len(s) - 1), order), order)

\* ------------------------------------------------------------ syntax tree
(***************************************************************************)
(* The syntax provider (tree-sitter-beancount, an external crate) as the   *)
(* formatter consumes it: a list of nodes in document order, each with its *)
(* start row, its end position (row, column) and, when it has one, its     *)
(* date field.  A dated directive starts at a head line and spans the      *)
(* posting lines that directly follow it; its node ends after the newline  *)
(* that closes its last line (row + 1, column 0), or inside the last line  *)
(* when the file ends there without a newline.  Nodes nested in a          *)
(* directive (its date token, its postings) and the root node carry no     *)
(* date field.  Blank and whitespace-only lines produce no node.           *)
(***************************************************************************)
Node(kind, top, start, erow, ecol, date) ==
    [kind |-> kind, top |-> top, start_row |-> start,
     end_row |-> erow, end_col |-> ecol, date |-> date]

BodyKind(p, r) == IF p[r + 1] = <<>> THEN "empty" ELSE p[r + 1][1].k

\* Last row of the directive whose head is at row r: r plus its posting lines.
RECURSIVE SpanEnd(_, _)
SpanEnd(p, r) ==
    IF r + 1 < Len(p) /\ BodyKind(p, r + 1) = "post" THEN SpanEnd(p, r + 1) ELSE r

\* End position of a node whose last line is row e.
EndRow(p, e) == IF e + 1 < Len(p) THEN e + 1 ELSE e
EndCol(p, e) == IF e + 1 < Len(p) THEN 0 ELSE 1

RECURSIVE NodesFrom(_, _)
NodesFrom(p, r) ==
    IF r >= Len(p) THEN <<>>
    ELSE IF BodyKind(p, r) = "head" THEN
        LET e == SpanEnd(p, r)
        IN <<Node("directive", TRUE, r, EndRow(p, e), EndCol(p, e), p[r + 1][1].d),
             Node("date", FALSE, r, r, 1, 0)>>
           \o [i \in 1..(e - r) |->
                 Node("posting", FALSE, r + i, EndRow(p, r + i), EndCol(p, r + i), 0)]
           \o NodesFrom(p, e + 1)
    ELSE IF BodyKind(p, r) = "cmt" THEN
        <<Node("comment", TRUE, r, EndRow(p, r), EndCol(p, r), 0)>> \o NodesFrom(p, r + 1)
    ELSE NodesFrom(p, r + 1)

Parse(s) ==
    LET p == SplitNL(s, 1, <<>>)
    IN <<Node("file", FALSE, 0, Len(p) - 1, 1, 0)>> \o NodesFrom(p, 0)

\* Valid input: every posting line continues a directive.
WellFormed(s) ==
    LET p == SplitNL(s, 1, <<>>)
    IN \A r \in 0..(Len(p) - 1) :
          BodyKind(p, r) = "post" =>
              r > 0 /\ BodyKind(p, r - 1) \in {"head", "post"}

\* A node has a date field: it is a dated directive.
HasDate(n) == n.kind = "directive"
LacksDate(n) == ~HasDate(n)

\* Formatter::new(): the two compiled queries.
\*   (_ date: (date) @date) @directive   any node with a date field
\*   (_ !date) @directive                any node without a date field
FormatterNew ==
    [language |-> "beancount",
     dated_directive_query |-> [pattern |-> "date"],
     boundary_query |-> [pattern |-> "!date"]]

\* cursor.matches(query, tree.root_node(), ..): every node of the tree the
\* pattern fits, in the order the tree lists its nodes (document order for a
\* parsed text).
QueryMatches(query, t) ==
    LET Fits(n) == IF query.pattern = "date" THEN HasDate(n) ELSE LacksDate(n)
    IN SelectSeq(t, Fits)

dated_directive_matches(self, t) == QueryMatches(self.dated_directive_query, t)

boundary_matches(self, t) == QueryMatches(self.boundary_query, t)

\* ----------------------------------------------------- directive extraction
\* (from..to).take_while(|&j| lines[j].trim().is_empty()).count(), rows 0-indexed
RECURSIVE CountBlank(_, _, _)
CountBlank(lines, from, to) ==
    IF from < to /\ TrimIsEmpty(lines[from + 1])
    THEN 1 + CountBlank(lines, from + 1, to)
    ELSE 0

\* tree-sitter end_position with column 0 means "start of that line".
AdjustedEnd(n) ==
    IF n.end_col = 0 /\ n.end_row > 0 THEN n.end_row - 1 ELSE n.end_row

\* directives.push(DatedDirective { .. }) for the k-th match (k from 0)
PushDirective(n, k, lines) ==
    [lines_start |-> n.start_row,
     lines_end |-> AdjustedEnd(n),
     date |-> n.date,
     text |-> JoinNL(SubSeq(lines, n.start_row + 1, AdjustedEnd(n) + 1)),
     blank_lines |-> 0,
     trailing_blank_lines |-> 0,
     leading_blank_lines |-> 0,
     original_index |-> k]

TrailingBlank(ds, i, lines) ==
    LET next_start == IF i + 1 <= Len(ds) THEN ds[i + 1].lines_start ELSE Len(lines)
    IN CountBlank(lines, ds[i].lines_end + 1, next_start)

\* Mutant: counted backward from the directive's first line.
RECURSIVE CountBlankBackward(_, _, _)
CountBlankBackward(lines, from, to) ==
    IF from < to /\ TrimIsEmpty(lines[to])
    THEN 1 + CountBlankBackward(lines, from, to - 1)
    ELSE 0

LeadingBlank_backward(ds, i, lines) ==
    IF i > 1
    THEN CountBlankBackward(lines, ds[i - 1].lines_end + 1, ds[i].lines_start)
    ELSE 0

LeadingBlank(ds, i, lines) ==
    IF i > 1
    THEN CountBlank(lines, ds[i - 1].lines_end + 1, ds[i].lines_start)
    ELSE 0

\* Mutant: a middle directive takes the larger side.
Characteristic_max(i, n, trailing, leading) ==
    IF i = 1 THEN trailing
    ELSE IF i = n THEN leading
    ELSE Max(trailing, leading)

\* Characteristic spacing of the i-th directive (1-indexed) of n.
Characteristic(i, n, trailing, leading) ==
    IF i = 1 THEN trailing
    ELSE IF i = n THEN leading
    ELSE Min(trailing, leading)

\* The loop body at lib.rs 176-218 for position i of the list sorted by start.
WithSpacing(ds, i, lines) ==
    LET trailing == TrailingBlank(ds, i, lines)
        leading == LeadingBlank(ds, i, lines)
    IN [ds[i] EXCEPT !.trailing_blank_lines = trailing,
                     !.leading_blank_lines = leading,
                     !.blank_lines = Characteristic(i, Len(ds), trailing, leading)]

\* lines[start_line..=end_line] at lib.rs 160 is bounds-checked: it panics
\* when the range of some match does not fit the line vector.
SlicePanics(self, t, lines) ==
    LET ms == dated_directive_matches(self, t)
    IN \E k \in 1..Len(ms) :
          \/ AdjustedEnd(ms[k]) + 1 > Len(lines)
          \/ ms[k].start_row > AdjustedEnd(ms[k]) + 1

extract_dated_directives(self, t, lines) ==
    LET ms == dated_directive_matches(self, t)
        pushed == [k \in 1..Len(ms) |-> PushDirective(ms[k], k - 1, lines)]
        byStart == StableSort(pushed, "lines_start")
        spaced == [i \in 1..Len(byStart) |-> WithSpacing(byStart, i, lines)]
    IN StableSort(spaced, "original_index")

\* ---------------------------------------------------------------- grouping
\* The start rows of all nodes the boundary query matches.
find_boundaries(self, t) ==
    LET ms == boundary_matches(self, t)
    IN [k \in 1..Len(ms) |-> ms[k].start_row]

\* Mutant: the new directive's end where the last one's end belongs.
has_boundary_wrong_end(boundaries, last, directive) ==
    \E k \in 1..Len(boundaries) :
        boundaries[k] > directive.lines_end /\ boundaries[k] < directive.lines_start

\* Mutant: the two comparisons are not strict.
has_boundary_inclusive(boundaries, last, directive) ==
    \E k \in 1..Len(boundaries) :
        boundaries[k] >= last.lines_end /\ boundaries[k] <= directive.lines_start

has_boundary(boundaries, last, directive) ==
    \E k \in 1..Len(boundaries) :
        boundaries[k] > last.lines_end /\ boundaries[k] < directive.lines_start

\* The for loop of identify_sortable_groups from directive i on; gs are the
\* groups pushed so far, cur is current_group.
RECURSIVE GroupLoop(_, _, _, _, _)
GroupLoop(ds, i, boundaries, gs, cur) ==
    IF i > Len(ds) THEN (IF Len(cur) > 0 THEN Append(gs, cur) ELSE gs)
    ELSE IF Len(cur) > 0 /\ has_boundary(boundaries, cur[Len(cur)], ds[i])
         THEN GroupLoop(ds, i + 1, boundaries, Append(gs, cur), <<ds[i]>>)
         ELSE GroupLoop(ds, i + 1, boundaries, gs, Append(cur, ds[i]))

identify_sortable_groups(self, ds, t) ==
    IF Len(ds) = 0 THEN <<>>
    ELSE GroupLoop(ds, 1, find_boundaries(self, t), <<>>, <<>>)

\* group.directives.is_sorted_by(|a, b| a.date < b.date)
is_sorted(g) == \A i \in 1..(Len(g) - 1) : g[i].date < g[i + 1].date

\* ---------------------------------------------------------- reconstruction
\* Mutant: entries of equal date and text are merged into one.
RECURSIVE MergeEqual(_)
MergeEqual(g) ==
    IF Len(g) <= 1 THEN g
    ELSE IF g[1].date = g[2].date /\ g[1].text = g[2].text
         THEN MergeEqual(Tail(g))
         ELSE <<g[1]>> \o MergeEqual(Tail(g))

sort_group_merging(g) == MergeEqual(StableSort(g, "date"))

\* sorted.sort_by(date, then original_index) at lib.rs 325-331
sort_group(g) == StableSort(g, "date")

\* The rows removed from the pass-through stream.
directive_lines(gs) ==
    UNION {
        UNION {
            (gs[g][i].lines_start .. gs[g][i].lines_end)
            \cup (IF i < Len(gs[g])
                  THEN {gs[g][i].lines_end + j : j \in 1..gs[g][i].trailing_blank_lines}
                  ELSE {})
            : i \in 1..Len(gs[g])}
        : g \in 1..Len(gs)}

\* Mutant: the characteristic spacing where the trailing count belongs.
separation_characteristic(current, next) ==
    IF current.original_index + 1 = next.original_index
    THEN current.blank_lines
    ELSE Max(current.blank_lines, next.blank_lines)

\* Mutant: min where max belongs.
separation_min(current, next) ==
    IF current.original_index + 1 = next.original_index
    THEN current.trailing_blank_lines
    ELSE Min(current.blank_lines, next.blank_lines)

separation(current, next) ==
    IF current.original_index + 1 = next.original_index
    THEN current.trailing_blank_lines
    ELSE Max(current.blank_lines, next.blank_lines)

BlankStrings(n) == [j \in 1..n |-> <<>>]

\* sorted_texts of one group: the texts with the separating empty strings.
RECURSIVE sorted_texts(_, _)
sorted_texts(sorted, i) ==
    IF i > Len(sorted) THEN <<>>
    ELSE IF i = Len(sorted) THEN <<sorted[i].text>>
    ELSE <<sorted[i].text>>
         \o BlankStrings(separation(sorted[i], sorted[i + 1]))
         \o sorted_texts(sorted, i + 1)

\* group_start_map.get(&line_idx): the group whose first directive starts there.
GroupAt(gs, line_idx) ==
    {g \in 1..Len(gs) : gs[g][1].lines_start = line_idx}

RECURSIVE SkipOwned(_, _, _)
SkipOwned(owned, n, line_idx) ==
    IF line_idx < n /\ line_idx \in owned
    THEN SkipOwned(owned, n, line_idx + 1)
    ELSE line_idx

\* The while loop at lib.rs 381-394 never advances once it stands on a
\* group's start line that is not in directive_lines: it extends result
\* without end.
LoopDiverges(lines, gs, owned) ==
    \E g \in 1..Len(gs) :
        gs[g][1].lines_start < Len(lines) /\ gs[g][1].lines_start \notin owned

\* The while loop at lib.rs 381-394.
RECURSIVE EmitLoop(_, _, _, _, _)
EmitLoop(lines, gs, owned, line_idx, result) ==
    IF line_idx >= Len(lines) THEN result
    ELSE IF GroupAt(gs, line_idx) # {} THEN
        LET g == CHOOSE x \in GroupAt(gs, line_idx) :
                     \A y \in GroupAt(gs, line_idx) : y <= x
        IN EmitLoop(lines, gs, owned, SkipOwned(owned, Len(lines), line_idx),
                    result \o sorted_texts(sort_group(gs[g]), 1))
    ELSE IF line_idx \in owned THEN EmitLoop(lines, gs, owned, line_idx + 1, result)
    ELSE EmitLoop(lines, gs, owned, line_idx + 1, Append(result, lines[line_idx + 1]))

\* Mutant: the final newline is not put back.
FixNewlines_no_push(s, joined) ==
    IF ~StartsWithNL(s) THEN TrimStartNL(joined) ELSE joined

\* Newline handling at lib.rs 396-403.
FixNewlines(s, joined) ==
    LET pushed == IF EndsWithNL(s) /\ ~EndsWithNL(joined)
                  THEN Append(joined, NL) ELSE joined
    IN IF ~StartsWithNL(s) THEN TrimStartNL(pushed) ELSE pushed

reconstruct_file(s, gs) ==
    LET lines == StrLines(s)
        result == EmitLoop(lines, gs, directive_lines(gs), 0, <<>>)
    IN FixNewlines(s, JoinNL(result))

\* Mutant: groups.iter().any(..) where all(..) belongs.
AnySorted(gs) == \E g \in 1..Len(gs) : is_sorted(gs[g])

\* groups.iter().all(|g| is_sorted(g))
AllSorted(gs) == \A g \in 1..Len(gs) : is_sorted(gs[g])

\* Formatter::sort as one function (parse, then sort_tree_by_date).
sort(self, s) ==
    LET t == Parse(s)
        lines == StrLines(s)
        ds == extract_dated_directives(self, t, lines)
        gs == identify_sortable_groups(self, ds, t)
    IN IF Len(ds) = 0 THEN s
       ELSE IF AllSorted(gs) THEN s
       ELSE reconstruct_file(s, gs)

\* ------------------------------------------------------------ state machine
(***************************************************************************)
(* One call of Formatter::sort on `content`, step by step through          *)
(* sort_tree_by_date; `path` records which return was taken.  SortAgain    *)
(* feeds the result back in, as test_idempotent does.                      *)
(***************************************************************************)
Inputs ==
    {s \in {JoinNL(ls) \o tl :
              ls \in UNION {[1..n -> Bodies] : n \in 0..MaxLines},
              tl \in {<<>>, <<NL>>}} : WellFormed(s)}

\* The parts of the state a single sort call leaves alone.
CallsIdle == <<>>
CliIdle == [pc |-> "idle"]
LspIdle == [pc |-> "idle"]
others == <<calls, cli, lsp>>

\* A fresh call of Formatter::sort on text s (lib.rs 96-99).
\* Entry of sort_tree_by_date(content, tree) on text s and tree t.
TreeEntry(s, t) ==
    /\ content = s
    /\ tree = t
    /\ pc = "start"
    /\ pass = "first"
    /\ directives = <<>>
    /\ groups = <<>>
    /\ output = <<>>
    /\ path = "none"
    /\ formatter = FormatterNew

SortEntry(s) == TreeEntry(s, Parse(s))

Init ==
    /\ \E s \in Inputs : SortEntry(s)
    /\ calls = CallsIdle
    /\ cli = CliIdle
    /\ lsp = LspIdle

\* lib.rs 104-105
Extract ==
    /\ pc = "start"
    /\ ~SlicePanics(formatter, tree, StrLines(content))
    /\ directives' = extract_dated_directives(formatter, tree, StrLines(content))
    /\ pc' = "extracted"
    /\ UNCHANGED <<content, tree, pass, groups, output, path, formatter, others>>

\* Mutant: the lines joined again where the input itself belongs.
ReturnNoDirectives_rejoined ==
    /\ pc = "extracted"
    /\ Len(directives) = 0
    /\ output' = JoinNL(StrLines(content))
    /\ path' = "no_directives"
    /\ pc' = "done"
    /\ UNCHANGED <<content, tree, pass, directives, groups, formatter, others>>

\* lib.rs 107-109
ReturnNoDirectives ==
    /\ pc = "extracted"
    /\ Len(directives) = 0
    /\ output' = content
    /\ path' = "no_directives"
    /\ pc' = "done"
    /\ UNCHANGED <<content, tree, pass, directives, groups, formatter, others>>

\* lib.rs 111
Group ==
    /\ pc = "extracted"
    /\ Len(directives) # 0
    /\ groups' = identify_sortable_groups(formatter, directives, tree)
    /\ pc' = "grouped"
    /\ UNCHANGED <<content, tree, pass, directives, output, path, formatter, others>>

\* lib.rs 113-115
ReturnUnchanged ==
    /\ pc = "grouped"
    /\ AllSorted(groups)
    /\ output' = content
    /\ path' = "unchanged"
    /\ pc' = "done"
    /\ UNCHANGED <<content, tree, pass, directives, groups, formatter, others>>

\* lib.rs 117
Reconstruct ==
    /\ pc = "grouped"
    /\ ~AllSorted(groups)
    /\ ~LoopDiverges(StrLines(content), groups, directive_lines(groups))
    /\ output' = reconstruct_file(content, groups)
    /\ path' = "reconstructed"
    /\ pc' = "done"
    /\ UNCHANGED <<content, tree, pass, directives, groups, formatter, others>>

\* tests.rs 162-163: sort(&sorted1)
SortAgain ==
    /\ pc = "done"
    /\ pass = "first"
    /\ content' = output
    /\ tree' = Parse(output)
    /\ pass' = "second"
    /\ pc' = "start"
    /\ directives' = <<>>
    /\ groups' = <<>>
    /\ output' = <<>>
    /\ path' = "none"
    /\ UNCHANGED <<formatter, others>>

Next ==
    \/ Extract
    \/ ReturnNoDirectives
    \/ Group
    \/ ReturnUnchanged
    \/ Reconstruct
    \/ SortAgain

Spec == Init /\ [][Next]_vars

\* Files of up to MaxLongLines lines, each a one-line dated directive or empty.
LongBodies == {<<>>} \cup {<<HeadLine(d, "a")>> : d \in 1..MaxDate}

LongInputs ==
    {JoinNL(ls) : ls \in UNION {[1..n -> LongBodies] : n \in 0..MaxLongLines}}

InitLong ==
    /\ \E s \in LongInputs : SortEntry(s)
    /\ calls = CallsIdle
    /\ cli = CliIdle
    /\ lsp = LspIdle

SpecLong == InitLong /\ [][Next]_vars

\* ------------------------------------------- a tree that is not the parse
(***************************************************************************)
(* sort_tree_by_date(content, tree) given a tree whose dated nodes name    *)
(* arbitrary rows: spans past the last line, spans that overlap.           *)
(***************************************************************************)
BadBodies == {<<>>} \cup {<<HeadLine(d, "a")>> : d \in 1..MaxDate}

BadInputs ==
    {JoinNL(ls) \o <<NL>> : ls \in UNION {[1..n -> BadBodies] : n \in 1..MaxBadLines}}

\* Dated nodes with any span over rows 0..MaxBadLines.
BadDirectiveNodes ==
    {Node("directive", TRUE, a, b, c, d) :
        a \in 0..MaxBadLines, b \in 0..MaxBadLines, c \in {0, 1}, d \in 1..MaxDate}

\* The root, then each dated node followed by its date token.
BadTree(s, ns) ==
    <<Node("file", FALSE, 0, Len(SplitNL(s, 1, <<>>)) - 1, 1, 0)>>
    \o [i \in 1..(2 * Len(ns)) |->
          IF i % 2 = 1 THEN ns[(i + 1) \div 2]
          ELSE Node("date", FALSE, ns[i \div 2].start_row, ns[i \div 2].start_row, 1, 0)]

BadTrees(s) ==
    {BadTree(s, ns) :
        ns \in UNION {[1..n -> {x \in BadDirectiveNodes : x.start_row <= x.end_row}] :
                        n \in 0..2}}

InitBadTree ==
    /\ \E s \in BadInputs : \E t \in BadTrees(s) : TreeEntry(s, t)
    /\ calls = CallsIdle
    /\ cli = CliIdle
    /\ lsp = LspIdle

\* lib.rs 160: the slice index is out of range and the thread panics.
ExtractPanics ==
    /\ pc = "start"
    /\ SlicePanics(formatter, tree, StrLines(content))
    /\ pc' = "panicked"
    /\ UNCHANGED <<content, tree, pass, directives, groups, output, path, formatter>>
    /\ UNCHANGED others

\* lib.rs 381-394: the loop never ends; result grows until the process is
\* out of memory.
ReconstructDiverges ==
    /\ pc = "grouped"
    /\ ~AllSorted(groups)
    /\ LoopDiverges(StrLines(content), groups, directive_lines(groups))
    /\ pc' = "diverged"
    /\ UNCHANGED <<content, tree, pass, directives, groups, output, path, formatter>>
    /\ UNCHANGED others

NextBadTree ==
    \/ Extract
    \/ ExtractPanics
    \/ ReturnNoDirectives
    \/ Group
    \/ ReturnUnchanged
    \/ Reconstruct
    \/ ReconstructDiverges

SpecBadTree == InitBadTree /\ [][NextBadTree]_vars

\* ------------------------------------------------------- concurrent callers
(***************************************************************************)
(* Several threads call sort(&self, ..) on one shared Formatter, each on   *)
(* its own text.  A call's parser, tree, cursor and vectors are locals of  *)
(* the call (lib.rs 97-99, 104-105, 127, 134); only `formatter` is shared. *)
(* The steps of different calls interleave freely.                         *)
(***************************************************************************)
Callers == {1, 2}

ConcBodies == {<<>>, <<CmtLine>>} \cup {<<HeadLine(d, "a")>> : d \in 1..MaxDate}

ConcInputs ==
    {JoinNL(ls) : ls \in UNION {[1..n -> ConcBodies] : n \in 0..MaxConcLines}}

\* The locals of a call of sort on text s, before its first step.
CallEntry(s) ==
    [content |-> s, tree |-> Parse(s), pc |-> "start", directives |-> <<>>,
     groups |-> <<>>, output |-> <<>>, path |-> "none"]

\* No single call outside `calls` is in flight.
SortIdle ==
    /\ content = <<>>
    /\ tree = <<>>
    /\ pc = "idle"
    /\ pass = "first"
    /\ directives = <<>>
    /\ groups = <<>>
    /\ output = <<>>
    /\ path = "none"

sortLocals == <<content, tree, pc, pass, directives, groups, output, path>>

InitConc ==
    /\ SortIdle
    /\ formatter = FormatterNew
    /\ calls \in [Callers -> {CallEntry(s) : s \in ConcInputs}]
    /\ cli = CliIdle
    /\ lsp = LspIdle

\* lib.rs 104-105, in call c
CallExtract(c) ==
    /\ calls[c].pc = "start"
    /\ calls' = [calls EXCEPT
         ![c].directives =
             extract_dated_directives(formatter, calls[c].tree, StrLines(calls[c].content)),
         ![c].pc = "extracted"]
    /\ UNCHANGED <<sortLocals, formatter, cli, lsp>>

\* lib.rs 107-109, in call c
CallReturnNoDirectives(c) ==
    /\ calls[c].pc = "extracted"
    /\ Len(calls[c].directives) = 0
    /\ calls' = [calls EXCEPT ![c].output = calls[c].content,
                              ![c].path = "no_directives",
                              ![c].pc = "done"]
    /\ UNCHANGED <<sortLocals, formatter, cli, lsp>>

\* Mutant: one query slot of the shared Formatter is reused for the boundary
\* search and left that way.
CallGroup_reusing_query_slot(c) ==
    /\ calls[c].pc = "extracted"
    /\ Len(calls[c].directives) # 0
    /\ calls' = [calls EXCEPT
         ![c].groups =
             identify_sortable_groups(formatter, calls[c].directives, calls[c].tree),
         ![c].pc = "grouped"]
    /\ formatter' = [formatter EXCEPT !.dated_directive_query = formatter.boundary_query]
    /\ UNCHANGED <<sortLocals, cli, lsp>>

\* lib.rs 111, in call c
CallGroup(c) ==
    /\ calls[c].pc = "extracted"
    /\ Len(calls[c].directives) # 0
    /\ calls' = [calls EXCEPT
         ![c].groups =
             identify_sortable_groups(formatter, calls[c].directives, calls[c].tree),
         ![c].pc = "grouped"]
    /\ UNCHANGED <<sortLocals, formatter, cli, lsp>>

\* lib.rs 113-115, in call c
CallReturnUnchanged(c) ==
    /\ calls[c].pc = "grouped"
    /\ AllSorted(calls[c].groups)
    /\ calls' = [calls EXCEPT ![c].output = calls[c].content,
                              ![c].path = "unchanged",
                              ![c].pc = "done"]
    /\ UNCHANGED <<sortLocals, formatter, cli, lsp>>

\* lib.rs 117, in call c
CallReconstruct(c) ==
    /\ calls[c].pc = "grouped"
    /\ ~AllSorted(calls[c].groups)
    /\ calls' = [calls EXCEPT
         ![c].output = reconstruct_file(calls[c].content, calls[c].groups),
         ![c].path = "reconstructed",
         ![c].pc = "done"]
    /\ UNCHANGED <<sortLocals, formatter, cli, lsp>>

ConcExtract == \E c \in Callers : CallExtract(c)
ConcReturnNoDirectives == \E c \in Callers : CallReturnNoDirectives(c)
ConcGroup == \E c \in Callers : CallGroup(c)
ConcReturnUnchanged == \E c \in Callers : CallReturnUnchanged(c)
ConcReconstruct == \E c \in Callers : CallReconstruct(c)

NextConc ==
    \/ ConcExtract
    \/ ConcReturnNoDirectives
    \/ ConcGroup
    \/ ConcReturnUnchanged
    \/ ConcReconstruct

SpecConc == InitConc /\ [][NextConc]_vars

\* ---------------------------------------------------- command-line filter
(***************************************************************************)
(* main of beancount_sort: read the file or stdin, sort, write back or     *)
(* print.  Every read and write may fail; a failing write may have put a   *)
(* prefix of its bytes at the destination before it failed.                *)
(***************************************************************************)
\* Process state after Args::parse(): the flags, the bytes at the input, and
\* nothing read, written or exited yet.  status -1: still running.
CliStart(in_place, file, input) ==
    [pc |-> "start", in_place |-> in_place, file |-> file, input |-> input,
     content |-> <<>>, sorted |-> <<>>, dest |-> IF in_place /\ file THEN input ELSE <<>>,
     written |-> <<>>, to_file |-> <<>>, to_stdout |-> <<>>,
     failure |-> "none", status |-> -1]

InitCli ==
    /\ SortIdle
    /\ formatter = FormatterNew
    /\ calls = CallsIdle
    /\ lsp = LspIdle
    /\ \E in_place \in BOOLEAN, file \in BOOLEAN, input \in ConcInputs :
         cli = CliStart(in_place, file, input)

\* Last index of a newline in s, 0 if none.
LastNL(s) ==
    LET at == {i \in 1..Len(s) : s[i] = NL}
    IN IF at = {} THEN 0 ELSE CHOOSE i \in at : \A j \in at : j <= i

\* beancount_sort.rs 19-27: read_to_string succeeds, or `?` returns the error
\* from main and the process exits with status 1.
CliRead ==
    /\ cli.pc = "start"
    /\ \/ cli' = [cli EXCEPT !.content = cli.input, !.pc = "read"]
       \/ cli' = [cli EXCEPT !.failure = IF cli.file THEN "read_file" ELSE "read_stdin",
                               !.status = 1, !.pc = "exited"]
    /\ UNCHANGED <<sortLocals, formatter, calls, lsp>>

\* beancount_sort.rs 29-30
CliSort ==
    /\ cli.pc = "read"
    /\ cli' = [cli EXCEPT !.sorted = sort(formatter, cli.content), !.pc = "sorted"]
    /\ UNCHANGED <<sortLocals, formatter, calls, lsp>>

\* beancount_sort.rs 34-35: std::fs::write(path, sorted)? creates or
\* truncates the file and then writes the bytes.  It fails before the file
\* is opened, or after k of the bytes are in the truncated file.
CliWriteBack ==
    /\ cli.pc = "sorted"
    /\ cli.in_place /\ cli.file
    /\ \/ cli' = [cli EXCEPT !.dest = cli.sorted, !.written = cli.sorted,
                               !.to_file = cli.sorted,
                               !.status = 0, !.pc = "exited"]
       \/ cli' = [cli EXCEPT !.failure = "write_back", !.status = 1, !.pc = "exited"]
       \/ \E k \in 0..(Len(cli.sorted) - 1) :
            cli' = [cli EXCEPT !.dest = SubSeq(cli.sorted, 1, k),
                               !.written = SubSeq(cli.sorted, 1, k),
                               !.to_file = SubSeq(cli.sorted, 1, k),
                               !.failure = "write_back", !.status = 1, !.pc = "exited"]
    /\ UNCHANGED <<sortLocals, formatter, calls, lsp>>

\* Mutant: without a file argument -i falls back to printing.
CliUsageError_prints ==
    /\ cli.pc = "sorted"
    /\ cli.in_place /\ ~cli.file
    /\ cli' = [cli EXCEPT !.dest = cli.sorted, !.written = cli.sorted,
                           !.to_stdout = cli.sorted, !.status = 0, !.pc = "exited"]
    /\ UNCHANGED <<sortLocals, formatter, calls, lsp>>

\* beancount_sort.rs 36-39: -i without a file argument
CliUsageError ==
    /\ cli.pc = "sorted"
    /\ cli.in_place /\ ~cli.file
    /\ cli' = [cli EXCEPT !.status = 1, !.pc = "exited"]
    /\ UNCHANGED <<sortLocals, formatter, calls, lsp>>

\* beancount_sort.rs 40-45: print!("{}", sorted) then Ok(()).  Standard
\* output is line buffered: the bytes up to the last newline are written by
\* print!, which panics (status 101) when that write fails; the bytes after
\* it are flushed when the process exits, and a failure there is dropped.
CliPrint ==
    /\ cli.pc = "sorted"
    /\ ~cli.in_place
    /\ \/ cli' = [cli EXCEPT !.dest = cli.sorted, !.written = cli.sorted,
                               !.to_stdout = cli.sorted,
                               !.status = 0, !.pc = "exited"]
       \/ \E k \in 0..(Len(cli.sorted) - 1) :
            cli' = [cli EXCEPT !.dest = SubSeq(cli.sorted, 1, k),
                               !.written = SubSeq(cli.sorted, 1, k),
                               !.to_stdout = SubSeq(cli.sorted, 1, k),
                               !.failure = "stdout",
                               !.status = IF k < LastNL(cli.sorted) THEN 101 ELSE 0,
                               !.pc = "exited"]
    /\ UNCHANGED <<sortLocals, formatter, calls, lsp>>

NextCli ==
    \/ CliRead
    \/ CliSort
    \/ CliWriteBack
    \/ CliUsageError
    \/ CliPrint

SpecCli == InitCli /\ [][NextCli]_vars

\* ------------------------------------------------- editor formatting handlers
(***************************************************************************)
(* handlers.rs: formatting and will_save_wait_until call the formatting    *)
(* provider and match on its result.  The provider's result is an input:   *)
(* any of Ok(None), Ok(Some(edits)) and Err(e).                            *)
(***************************************************************************)
Uris == {"u1", "u2"}
TabSizes == {2, 4}
Edits == {"e1", "e2"}
EditVecs == UNION {[1..n -> Edits] : n \in 0..2}
Errors == {"err1", "err2"}

OkNone == [tag |-> "Ok(None)", edits |-> <<>>, e |-> ""]
OkSome(edits) == [tag |-> "Ok(Some)", edits |-> edits, e |-> ""]
Err(e) == [tag |-> "Err", edits |-> <<>>, e |-> e]
ProviderResults == {OkNone} \cup {OkSome(v) : v \in EditVecs} \cup {Err(e) : e \in Errors}

\* A request as the handler receives it; will_save_wait_until's params carry
\* no formatting options.
LspRequest(handler, uri, tab_size, insert_spaces) ==
    [pc |-> "start", handler |-> handler,
     params |-> [uri |-> uri, tab_size |-> tab_size, insert_spaces |-> insert_spaces],
     formatting_params |-> <<>>, provider_result |-> <<>>, result |-> <<>>]

InitLsp ==
    /\ SortIdle
    /\ formatter = FormatterNew
    /\ calls = CallsIdle
    /\ cli = CliIdle
    /\ \/ \E uri \in Uris, tab_size \in TabSizes, insert_spaces \in BOOLEAN :
            lsp = LspRequest("formatting", uri, tab_size, insert_spaces)
       \/ \E uri \in Uris : lsp = LspRequest("will_save_wait_until", uri, 0, FALSE)

\* handlers.rs 133: formatting passes its params on.
\* handlers.rs 161-171: will_save_wait_until builds them, tab_size 4 and
\* insert_spaces true.
LspCallProvider ==
    /\ lsp.pc = "start"
    /\ lsp' = [lsp EXCEPT
         !.formatting_params =
             IF lsp.handler = "formatting" THEN lsp.params
             ELSE [uri |-> lsp.params.uri, tab_size |-> 4, insert_spaces |-> TRUE],
         !.pc = "called"]
    /\ UNCHANGED <<sortLocals, formatter, calls, cli>>

\* formatting::formatting(snapshot, params) returns.
LspProviderReturns ==
    /\ lsp.pc = "called"
    /\ \E r \in ProviderResults : lsp' = [lsp EXCEPT !.provider_result = r, !.pc = "matching"]
    /\ UNCHANGED <<sortLocals, formatter, calls, cli>>

\* Mutant: the no-changes arm reports an error.
formatting_match_none_is_error(r) ==
    IF r.tag = "Ok(Some)" THEN OkSome(r.edits)
    ELSE IF r.tag = "Ok(None)" THEN Err("err1")
    ELSE Err(r.e)

\* The match at handlers.rs 133-146.
formatting_match(r) ==
    IF r.tag = "Ok(Some)" THEN OkSome(r.edits)
    ELSE IF r.tag = "Ok(None)" THEN OkNone
    ELSE Err(r.e)

\* The match at handlers.rs 171-184.
will_save_wait_until_match(r) ==
    IF r.tag = "Ok(Some)" THEN OkSome(r.edits)
    ELSE IF r.tag = "Ok(None)" THEN OkNone
    ELSE Err(r.e)

LspFormattingReturns ==
    /\ lsp.pc = "matching"
    /\ lsp.handler = "formatting"
    /\ lsp' = [lsp EXCEPT !.result = formatting_match(lsp.provider_result),
                           !.pc = "returned"]
    /\ UNCHANGED <<sortLocals, formatter, calls, cli>>

LspWillSaveReturns ==
    /\ lsp.pc = "matching"
    /\ lsp.handler = "will_save_wait_until"
    /\ lsp' = [lsp EXCEPT !.result = will_save_wait_until_match(lsp.provider_result),
                           !.pc = "returned"]
    /\ UNCHANGED <<sortLocals, formatter, calls, cli>>

NextLsp ==
    \/ LspCallProvider
    \/ LspProviderReturns
    \/ LspFormattingReturns
    \/ LspWillSaveReturns

SpecLsp == InitLsp /\ [][NextLsp]_vars

\* ------------------------------------------------------ code-action handler
(***************************************************************************)
(* code_actions.rs: code_actions looks up the tree and the document in the *)
(* snapshot, find_narration_at_cursor borrows the tree and returns a       *)
(* NarrationInfo, build_move_to_metadata_action reads it.  A node value    *)
(* is recorded with the lifetime its type carries.                         *)
(***************************************************************************)
CursorKinds == {"narration", "string_in_narration", "string_elsewhere", "other"}
NarrationTexts == {"empty", "blank", "text"}

\* tree_sitter::Node<'lifetime> pointing into the tree.
NodeRef(kind, lifetime) == [is |-> "node", kind |-> kind, lifetime |-> lifetime]
NoInfo == [is |-> "none"]

CodeActionRequest(uri_ok, has_tree, doc_open, cursor, in_transaction, text, has_source_desc) ==
    [pc |-> "start", handler |-> "code_actions",
     uri_ok |-> uri_ok, has_tree |-> has_tree, doc_open |-> doc_open,
     cursor |-> cursor, in_transaction |-> in_transaction, text |-> text,
     has_source_desc |-> has_source_desc,
     tree_live |-> has_tree, tree_borrowed |-> FALSE, info |-> NoInfo,
     used_after_release |-> FALSE, result |-> "pending"]

InitCodeAction ==
    /\ SortIdle
    /\ formatter = FormatterNew
    /\ calls = CallsIdle
    /\ cli = CliIdle
    /\ \E uri_ok \in BOOLEAN, has_tree \in BOOLEAN, doc_open \in BOOLEAN,
          cursor \in CursorKinds, in_transaction \in BOOLEAN,
          text \in NarrationTexts, has_source_desc \in BOOLEAN :
         lsp = CodeActionRequest(uri_ok, has_tree, doc_open, cursor, in_transaction,
                                 text, has_source_desc)

\* code_actions.rs 13-36: the three lookups, each returning Ok(None) early.
CaLookup ==
    /\ lsp.pc = "start"
    /\ lsp' = IF lsp.uri_ok /\ lsp.has_tree /\ lsp.doc_open
              THEN [lsp EXCEPT !.tree_borrowed = TRUE, !.pc = "looked_up"]
              ELSE [lsp EXCEPT !.tree_live = FALSE, !.result = "Ok(None)", !.pc = "returned"]
    /\ UNCHANGED <<sortLocals, formatter, calls, cli>>

\* code_actions.rs 65-124: None unless the cursor is on a narration (or the
\* string inside one) of a transaction, the text is not empty and there is
\* no source_desc yet; else Some(NarrationInfo) with both nodes transmuted
\* to Node<'static> (lines 116-117).
find_narration_at_cursor(r) ==
    IF /\ \/ r.cursor = "narration"
          \/ r.cursor = "string_in_narration"
       /\ r.in_transaction
       /\ r.text = "text"
       /\ ~r.has_source_desc
    THEN [is |-> "some",
          narration_node |-> NodeRef("narration", "static"),
          transaction_node |-> NodeRef("transaction", "static"),
          narration_text |-> r.text]
    ELSE NoInfo

\* code_actions.rs 39: the call; the borrow of the tree taken for it ends
\* when it returns.  Line 51: None gives Ok(None).
CaFindNarration ==
    /\ lsp.pc = "looked_up"
    /\ LET info == find_narration_at_cursor(lsp)
       IN lsp' = IF info = NoInfo
                 THEN [lsp EXCEPT !.tree_borrowed = FALSE, !.tree_live = FALSE,
                                  !.result = "Ok(None)", !.pc = "returned"]
                 ELSE [lsp EXCEPT !.tree_borrowed = FALSE, !.info = info, !.pc = "found"]
    /\ UNCHANGED <<sortLocals, formatter, calls, cli>>

\* code_actions.rs 41-46 and 159-231: build_move_to_metadata_action reads
\* the nodes' positions and children, then code_actions returns and the
\* snapshot with the tree is dropped.
CaBuildAction ==
    /\ lsp.pc = "found"
    /\ lsp' = [lsp EXCEPT
         !.used_after_release = (lsp.info.narration_node.is = "node" /\ ~lsp.tree_live),
         !.result = "Ok(Some)", !.tree_live = FALSE, !.pc = "returned"]
    /\ UNCHANGED <<sortLocals, formatter, calls, cli>>

NextCodeAction ==
    \/ CaLookup
    \/ CaFindNarration
    \/ CaBuildAction

SpecCodeAction == InitCodeAction /\ [][NextCodeAction]_vars

\* ------------------------------------------------- reading a text's layout
(***************************************************************************)
(* What a reader sees in a text, independent of the sorter: its dated      *)
(* directives in document order, each with its rows, date, verbatim text   *)
(* and the number of boundary lines above it (its section).                *)
(***************************************************************************)
RECURSIVE HeadRowsFrom(_, _)
HeadRowsFrom(L, r) ==
    IF r >= Len(L) THEN <<>>
    ELSE IF BodyKind(L, r) = "head" THEN <<r>> \o HeadRowsFrom(L, r + 1)
    ELSE HeadRowsFrom(L, r + 1)

BoundaryRows(L) == {r \in 0..(Len(L) - 1) : BodyKind(L, r) = "cmt"}

SeenDirectives(s) ==
    LET L == StrLines(s)
        hs == HeadRowsFrom(L, 0)
    IN [i \in 1..Len(hs) |->
          [start |-> hs[i],
           end |-> SpanEnd(L, hs[i]),
           date |-> L[hs[i] + 1][1].d,
           text |-> JoinNL(SubSeq(L, hs[i] + 1, SpanEnd(L, hs[i]) + 1)),
           section |-> Cardinality({b \in BoundaryRows(L) : b < hs[i]})]]

Sections(s) == {SeenDirectives(s)[i].section : i \in 1..Len(SeenDirectives(s))}

\* The directives of one section, in document order.
InSection(s, k) ==
    LET Test(x) == x.section = k
    IN SelectSeq(SeenDirectives(s), Test)

TextsOf(ds) == [i \in 1..Len(ds) |-> ds[i].text]

WithDate(ds, d) ==
    LET Test(x) == x.date = d
    IN SelectSeq(ds, Test)

\* Blank lines between the i-th and the (i+1)-th directive of ds.
GapAfter(ds, i) == ds[i + 1].start - ds[i].end - 1

NonDecreasing(ds) == \A i \in 1..(Len(ds) - 1) : ds[i].date <= ds[i + 1].date

Returned == pc = "done"

\* ------------------------------------------------------------------ claims

\* C1: sort is idempotent: sorting the result of a sort returns it unchanged,
\* sort(sort(x)) = sort(x), for every valid input.
C1_Idempotent ==
    (Returned /\ pass = "second") => output = content

\* C2: if every sortable group of x is already non-decreasing by date (equal
\* adjacent dates allowed), sort(x) = x byte for byte.
C2_NoOpPreservation ==
    (Returned /\ \A k \in Sections(content) : NonDecreasing(InSection(content, k)))
        => output = content

\* C3: two directives D1 before D2 with a boundary line between them keep
\* their order: D1's text stays in its section and D2's in its later section
\* of sort(x), whatever their dates.
C3_BoundaryRespect ==
    Returned =>
        LET I == SeenDirectives(content)
            O == SeenDirectives(output)
        IN \A i \in 1..Len(I) : \A j \in (i + 1)..Len(I) :
              I[i].section < I[j].section =>
                  \E i2 \in 1..Len(O) : \E j2 \in (i2 + 1)..Len(O) :
                      /\ O[i2].text = I[i].text /\ O[i2].section = I[i].section
                      /\ O[j2].text = I[j].text /\ O[j2].section = I[j].section

\* C3 witness: a reordering run in which an earlier section holds a later
\* date than a section below it.
C3_Witness ==
    /\ Returned /\ path = "reconstructed"
    /\ \E i \in 1..Len(SeenDirectives(content)) :
         \E j \in 1..Len(SeenDirectives(content)) :
            /\ SeenDirectives(content)[i].section < SeenDirectives(content)[j].section
            /\ SeenDirectives(content)[i].date > SeenDirectives(content)[j].date

\* C4: directives of one group that carry the same date come out in the
\* order they went in.
C4_Stability ==
    Returned =>
        LET ci == SeenDirectives(content)
            co == SeenDirectives(output)
        IN \A k \in {ci[i].section : i \in 1..Len(ci)} : \A d \in 1..MaxDate :
              LET Test(x) == x.section = k /\ x.date = d
              IN TextsOf(SelectSeq(co, Test)) = TextsOf(SelectSeq(ci, Test))

\* C4 witness: a reordering run over a group holding two different entries
\* of one date.
C4_Witness ==
    /\ Returned /\ path = "reconstructed"
    /\ output # content
    /\ \E k \in Sections(content) : \E d \in 1..MaxDate :
         LET same == TextsOf(WithDate(InSection(content, k), d))
         IN Len(same) >= 2 /\ same[1] # same[2]

\* The section (number of boundary lines above) of a row of the input.
SectionOfRow(s, row) == Cardinality({b \in BoundaryRows(StrLines(s)) : b < row})

\* The block sort(x) shows for group g: the directives of the group's section.
OutputBlock(g) == InSection(output, SectionOfRow(content, g[1].lines_start))

\* The block shows the directives of sort_group(g), text for text.
ShowsSorted(g) ==
    /\ Len(OutputBlock(g)) = Len(g)
    /\ TextsOf(OutputBlock(g)) = TextsOf(sort_group(g))

WereConsecutive(a, b) == b.original_index = a.original_index + 1

\* C5: when reconstruction runs and A is directly followed by B in the sorted
\* group with B.original_index = A.original_index + 1, exactly
\* A.trailing_blank_lines blank lines stand between A and B in the result.
C5_AdjacentSpacing ==
    (Returned /\ path = "reconstructed") =>
        \A gi \in 1..Len(groups) :
            LET S == sort_group(groups[gi])
                O == OutputBlock(groups[gi])
            IN /\ ShowsSorted(groups[gi])
               /\ \A p \in 1..(Len(S) - 1) :
                    WereConsecutive(S[p], S[p + 1]) =>
                        GapAfter(O, p) = S[p].trailing_blank_lines

\* C5 witness: a reordered group in which a pair that was adjacent in the
\* input, with blank lines between, is adjacent again.
C5_Witness ==
    /\ Returned /\ path = "reconstructed"
    /\ \E gi \in 1..Len(groups) :
         LET S == sort_group(groups[gi])
         IN /\ S # groups[gi]
            /\ \E p \in 1..(Len(S) - 1) :
                 /\ WereConsecutive(S[p], S[p + 1])
                 /\ S[p].trailing_blank_lines > 0

\* C6: when reconstruction runs and A is directly followed by B in the sorted
\* group but did not directly precede B in the input, exactly
\* max(characteristic spacing of A, characteristic spacing of B) blank lines
\* stand between them in the result.
C6_NonAdjacentSpacing ==
    (Returned /\ path = "reconstructed") =>
        \A gi \in 1..Len(groups) :
            LET S == sort_group(groups[gi])
                O == OutputBlock(groups[gi])
            IN /\ ShowsSorted(groups[gi])
               /\ \A p \in 1..(Len(S) - 1) :
                    ~WereConsecutive(S[p], S[p + 1]) =>
                        GapAfter(O, p) = Max(S[p].blank_lines, S[p + 1].blank_lines)

\* C6 witness: a pair brought together by the sort whose two characteristic
\* spacings differ.
C6_Witness ==
    /\ Returned /\ path = "reconstructed"
    /\ \E gi \in 1..Len(groups) :
         LET S == sort_group(groups[gi])
         IN \E p \in 1..(Len(S) - 1) :
              /\ ~WereConsecutive(S[p], S[p + 1])
              /\ S[p].blank_lines # S[p + 1].blank_lines

\* C7: in sort(x) the directives of every sortable group stand in
\* non-decreasing order of date, for every input.
C7_SortedPostcondition ==
    Returned => \A k \in Sections(output) : NonDecreasing(InSection(output, k))

\* C7 witness: a result returned for an input that had a group out of order.
C7_Witness ==
    /\ Returned
    /\ \E k \in Sections(content) : ~NonDecreasing(InSection(content, k))

NoDatedDirective(s) == \A i \in 1..Len(s) : s[i].k # "head"

\* C8: an input without any dated directive is returned unchanged, verbatim,
\* through the early return.
C8_DegenerateNoOp ==
    (Returned /\ NoDatedDirective(content)) =>
        (output = content /\ path = "no_directives")

\* C8 witness: only non-dated constructs and blank lines, no final newline.
C8_Witness ==
    /\ Returned /\ NoDatedDirective(content)
    /\ \E i \in 1..Len(content) : content[i].k = "cmt"
    /\ StartsWithNL(content) /\ ~EndsWithNL(content)

\* The lines of L at the rows (0-indexed) outside `drop`, in order.
RECURSIVE LinesOutside(_, _, _)
LinesOutside(L, drop, r) ==
    IF r >= Len(L) THEN <<>>
    ELSE IF r \in drop THEN LinesOutside(L, drop, r + 1)
    ELSE <<L[r + 1]>> \o LinesOutside(L, drop, r + 1)

\* The rows of a text that its groups' blocks occupy.
BlockRows(s) ==
    UNION {(InSection(s, k)[1].start) .. (InSection(s, k)[Len(InSection(s, k))].end)
           : k \in Sections(s)}

RowsBefore(n, drop, row) == Cardinality({r \in 0..(n - 1) : r < row /\ r \notin drop})

\* C9: every line not owned by a directive appears in sort(x) verbatim, in the
\* same order, and each group's sorted block stands where the group's first
\* directive started: the same lines above it and below it.
C9_PassThrough ==
    (Returned /\ path = "reconstructed") =>
        LET L == StrLines(content)
            O == StrLines(output)
            owned == directive_lines(groups)
        IN /\ LinesOutside(O, BlockRows(output), 0) = LinesOutside(L, owned, 0)
           /\ \A gi \in 1..Len(groups) :
                /\ OutputBlock(groups[gi]) # <<>>
                /\ RowsBefore(Len(O), BlockRows(output), OutputBlock(groups[gi])[1].start)
                     = RowsBefore(Len(L), owned, groups[gi][1].lines_start)

RECURSIVE TotalGap(_, _)
TotalGap(ds, i) ==
    IF i >= Len(ds) THEN 0 ELSE GapAfter(ds, i) + TotalGap(ds, i + 1)

\* C10: for every group, the total number of blank lines between its
\* directives is the same in sort(x) as in x.
C10_BlankLinesPreserved ==
    Returned =>
        \A k \in Sections(content) :
            TotalGap(InSection(output, k), 1) = TotalGap(InSection(content, k), 1)

\* C11: when the sort reverses two directives that were adjacent in the input
\* (B directly before A in x, A directly before B in sort(x)), the number of
\* blank lines between them in sort(x) is the number that stood between them
\* in x.
C11_ReversedPairGap ==
    (Returned /\ path = "reconstructed") =>
        \A gi \in 1..Len(groups) :
            LET S == sort_group(groups[gi])
                O == OutputBlock(groups[gi])
            IN /\ ShowsSorted(groups[gi])
               /\ \A p \in 1..(Len(S) - 1) :
                    S[p].original_index = S[p + 1].original_index + 1 =>
                        GapAfter(O, p) = S[p].lines_start - S[p + 1].lines_end - 1

\* C12: sort(x) ends with a newline exactly when x does, and if x does not
\* start with a newline, sort(x) does not start with one.
C12_NewlineState ==
    Returned =>
        /\ EndsWithNL(output) <=> EndsWithNL(content)
        /\ ~StartsWithNL(content) => ~StartsWithNL(output)

\* C12 witness: reconstruction reordered a text that ends with a newline and
\* does not start with one.
C12_Witness ==
    /\ Returned /\ path = "reconstructed"
    /\ output # content
    /\ EndsWithNL(content) /\ ~StartsWithNL(content)
    /\ \E gi \in 1..Len(groups) : sort_group(groups[gi]) # groups[gi]

SingletonSections(s) == \A k \in Sections(s) : Len(InSection(s, k)) = 1

\* C13: if every two consecutive dated directives of x are separated by a
\* boundary line (every group holds one directive), sort(x) = x whatever the
\* dates are.
C13_SingletonGroupsUnchanged ==
    (Returned /\ SingletonSections(content)) => output = content

\* C13 witness: two directives in falling date order with a boundary line
\* between them.
C13_Witness ==
    /\ Returned /\ SingletonSections(content)
    /\ \E i \in 1..Len(SeenDirectives(content)) :
         \E j \in (i + 1)..Len(SeenDirectives(content)) :
            SeenDirectives(content)[i].date > SeenDirectives(content)[j].date

\* C14: under any interleaving of sort calls on different documents that
\* share one Formatter, each call returns what it returns when run alone on
\* its text, and the Formatter's queries stay as constructed.
C14_SharedFormatter ==
    /\ formatter = FormatterNew
    /\ \A c \in DOMAIN calls :
         calls[c].pc = "done" => calls[c].output = sort(FormatterNew, calls[c].content)

\* C14 witness: one call has returned a reordered text while another call,
\* on a different text, is between its steps.
C14_Witness ==
    /\ DOMAIN calls = Callers
    /\ calls[1].pc = "done" /\ calls[1].path = "reconstructed"
    /\ calls[1].output # calls[1].content
    /\ calls[2].pc = "grouped"
    /\ calls[2].content # calls[1].content

\* The rows a dated node claims.
SpanRows(n) == n.start_row..AdjustedEnd(n)

\* The stated invariants of a tree/text pair: every dated node's span lies
\* within the text's lines and no two dated nodes' spans share a row.
TreeConsistent(t, s) ==
    LET ms == SelectSeq(t, HasDate)
    IN /\ \A k \in 1..Len(ms) :
            ms[k].start_row <= AdjustedEnd(ms[k]) /\ AdjustedEnd(ms[k]) < Len(StrLines(s))
       /\ \A j, k \in 1..Len(ms) : j # k => SpanRows(ms[j]) \cap SpanRows(ms[k]) = {}

\* C15: sort never returns an output text for a tree/text pair that violates
\* the stated invariants (a span past the last line, or two overlapping spans).
C15_BadTreeFailsLoudly ==
    Returned => TreeConsistent(tree, content)

\* C16: when reading the input file, reading stdin or writing the file back
\* fails, the filter exits with a nonzero status and no byte of the sorted
\* output has been written to its destination.
C16_IoFailureReported ==
    (cli.pc = "exited" /\ cli.failure \in {"read_file", "read_stdin", "write_back"}) =>
        /\ cli.status # 0
        /\ cli.written = <<>>

\* C17: both formatting handlers return the provider's result as it is: no
\* changes (Ok(None)) stays Ok(None) and is never an error; Ok(Some(edits))
\* keeps its edits and Err keeps its error.
C17_HandlersPassThrough ==
    lsp.pc = "returned" =>
        /\ lsp.provider_result.tag = "Ok(None)" => lsp.result = OkNone
        /\ lsp.provider_result.tag = "Ok(Some)" => lsp.result = OkSome(lsp.provider_result.edits)
        /\ lsp.provider_result.tag = "Err" => lsp.result = Err(lsp.provider_result.e)

\* C17 witness: the formatting handler has returned for a provider that
\* reported no changes.
C17_Witness ==
    /\ lsp.pc = "returned"
    /\ lsp.handler = "formatting"
    /\ lsp.provider_result = OkNone
    /\ lsp.result.tag # "Err"

\* The groups' directives one after another.
RECURSIVE Flatten(_)
Flatten(gs) == IF gs = <<>> THEN <<>> ELSE Head(gs) \o Flatten(Tail(gs))

\* Index of the group that holds the i-th directive of Flatten(gs).
RECURSIVE GroupOfPosition(_, _, _)
GroupOfPosition(gs, g, i) ==
    IF i <= Len(gs[g]) THEN g ELSE GroupOfPosition(gs, g + 1, i - Len(gs[g]))

\* Some boundary row lies strictly between the end of a and the start of b.
BoundaryBetween(a, b) ==
    LET fb == find_boundaries(formatter, tree)
    IN \E k \in 1..Len(fb) : a.lines_end < fb[k] /\ fb[k] < b.lines_start

Grouped == pc \in {"grouped", "done"} /\ path # "no_directives"

\* C18: the groups concatenated in order are the directive list, no group is
\* empty, and two consecutive directives share a group exactly when no
\* boundary row lies strictly between the first one's end and the second
\* one's start.
C18_GroupingPartition ==
    Grouped =>
        /\ Flatten(groups) = directives
        /\ \A g \in 1..Len(groups) : Len(groups[g]) >= 1
        /\ \A i \in 1..(Len(directives) - 1) :
             (GroupOfPosition(groups, 1, i) = GroupOfPosition(groups, 1, i + 1))
                 <=> ~BoundaryBetween(directives[i], directives[i + 1])

\* C18 witness: grouping has produced several groups, one of them with more
\* than one directive.
C18_Witness ==
    /\ pc = "grouped"
    /\ Len(groups) >= 2
    /\ \E g \in 1..Len(groups) : Len(groups[g]) >= 2

\* C19: every row find_boundaries returns is the row of a top-level
\* construct without a date; no row of a dated directive's own span (its
\* date token, its postings) is returned.
C19_BoundariesTopLevel ==
    pc # "idle" =>
        \A k \in 1..Len(find_boundaries(formatter, tree)) :
            find_boundaries(formatter, tree)[k] \in BoundaryRows(StrLines(content))

\* Every group is already in the order the sort comparator gives it.
NothingToReorder == \A g \in 1..Len(groups) : sort_group(groups[g]) = groups[g]

\* C20: with dated directives present, sort returns by the unchanged path
\* exactly when every group is already sorted under the comparator (date
\* ascending, ties in original_index order); reconstruction runs only when
\* some group's order changes.
C20_NoOpFastPath ==
    (Returned /\ path \in {"unchanged", "reconstructed"}) =>
        (path = "unchanged" <=> NothingToReorder)

Extracted == pc \in {"extracted", "grouped", "done"}

\* Some dated directive of the file starts before (after) d.
HasEarlier(d) == \E j \in 1..Len(directives) : directives[j].lines_start < d.lines_start
HasLater(d) == \E j \in 1..Len(directives) : directives[j].lines_start > d.lines_start

\* C21: blank_lines is the trailing count for the file's first directive
\* (also when it is the only one), the leading count for the file's last
\* directive, and min(trailing, leading) for every other; first and last are
\* positions in the file, whatever the groups are.
C21_CharacteristicSpacing ==
    Extracted =>
        \A i \in 1..Len(directives) :
            LET d == directives[i]
            IN d.blank_lines =
                 IF ~HasEarlier(d) THEN d.trailing_blank_lines
                 ELSE IF ~HasLater(d) THEN d.leading_blank_lines
                 ELSE Min(d.trailing_blank_lines, d.leading_blank_lines)

\* C21 witness: a directive between two others with different blank counts
\* on its two sides.
C21_Witness ==
    /\ pc = "grouped"
    /\ \E i \in 1..Len(directives) :
         /\ HasEarlier(directives[i]) /\ HasLater(directives[i])
         /\ directives[i].trailing_blank_lines # directives[i].leading_blank_lines

\* Whitespace-only lines directly above row r.
RECURSIVE BlanksAbove(_, _)
BlanksAbove(L, r) ==
    IF r > 0 /\ TrimIsEmpty(L[r]) THEN 1 + BlanksAbove(L, r - 1) ELSE 0

\* C22: leading_blank_lines is the number of consecutive whitespace-only
\* lines directly above the directive's first line, 0 for the first
\* directive, also with a comment between it and the previous directive.
C22_LeadingBlankLines ==
    Extracted =>
        \A i \in 1..Len(directives) :
            directives[i].leading_blank_lines =
                IF HasEarlier(directives[i])
                THEN BlanksAbove(StrLines(content), directives[i].lines_start)
                ELSE 0

\* C28: for every directive after the first in document order, its
\* leading_blank_lines equals the trailing_blank_lines of the directive
\* before it.
C28_LeadingEqualsPreviousTrailing ==
    Extracted =>
        \A i, j \in 1..Len(directives) :
            (/\ directives[i].lines_start < directives[j].lines_start
             /\ ~\E k \in 1..Len(directives) :
                   /\ directives[i].lines_start < directives[k].lines_start
                   /\ directives[k].lines_start < directives[j].lines_start)
            => directives[j].leading_blank_lines = directives[i].trailing_blank_lines

\* C28 witness: two neighbouring directives with blank lines and a comment
\* between them: the counts agree, are not zero, and are less than the gap.
C28_Witness ==
    /\ pc = "extracted"
    /\ \E i \in 1..(Len(directives) - 1) :
         /\ directives[i + 1].leading_blank_lines >= 1
         /\ directives[i + 1].leading_blank_lines = directives[i].trailing_blank_lines
         /\ directives[i + 1].lines_start - directives[i].lines_end - 1
                > directives[i + 1].leading_blank_lines

\* The last directive of the output's section k and of the input's section k.
LastOfSection(s, k) == InSection(s, k)[Len(InSection(s, k))]

\* Number of whitespace-only lines directly below row r.
BlanksBelow(s, r) == CountBlank(StrLines(s), r + 1, Len(StrLines(s)))

\* C23: the rows taken out of the pass-through stream are the rows of every
\* directive span and the blank rows after every directive that is not the
\* last of its original group; the blank lines after the last directive of
\* each group stand unchanged after the group's sorted block.
C23_OwnedLines ==
    (Returned /\ path = "reconstructed") =>
        /\ directive_lines(groups) = BlockRows(content)
        /\ \A k \in Sections(content) :
             /\ k \in Sections(output)
             /\ BlanksBelow(output, LastOfSection(output, k).end)
                    = BlanksBelow(content, LastOfSection(content, k).end)

\* Number of newline characters at the end of s.
RECURSIVE TrailingNewlines(_)
TrailingNewlines(s) ==
    IF EndsWithNL(s) THEN 1 + TrailingNewlines(SubSeq(s, 1, Len(s) - 1)) ELSE 0

\* C30: when reconstruction runs, the output ends with as many newline
\* characters (as many trailing blank lines) as the input.
C30_TrailingBlankLinesKept ==
    (Returned /\ path = "reconstructed") =>
        TrailingNewlines(output) = TrailingNewlines(content)

\* A group in comparator order already, with equal dates next to each other.
InOrderWithTies(g) == sort_group(g) = g /\ ~is_sorted(g)

\* C24: a group already in order whose directives share dates comes out with
\* the same directive order and the same number of blank lines between every
\* consecutive pair.
C24_EqualDatesUnchanged ==
    Returned =>
        \A gi \in 1..Len(groups) :
            InOrderWithTies(groups[gi]) =>
                LET g == groups[gi]
                    O == OutputBlock(g)
                IN /\ TextsOf(O) = TextsOf(g)
                   /\ \A p \in 1..(Len(g) - 1) :
                        GapAfter(O, p) = g[p + 1].lines_start - g[p].lines_end - 1

\* C24 witness: reconstruction has run on a group of three same-date
\* directives with different gaps between them.
C24_Witness ==
    /\ Returned /\ path = "reconstructed"
    /\ \E gi \in 1..Len(groups) :
         /\ InOrderWithTies(groups[gi])
         /\ Len(groups[gi]) = 3
         /\ groups[gi][1].date = groups[gi][3].date
         /\ groups[gi][2].lines_start - groups[gi][1].lines_end
                # groups[gi][3].lines_start - groups[gi][2].lines_end

C26_OneDestination ==
    cli.pc = "exited" =>
        /\ (cli.in_place /\ cli.file) =>
               /\ cli.to_stdout = <<>>
               /\ cli.failure = "none" => cli.to_file = cli.sorted
        /\ ~cli.in_place =>
               /\ cli.to_file = <<>>
               /\ cli.failure = "none" => cli.to_stdout = cli.sorted
        /\ (cli.in_place /\ ~cli.file) =>
               /\ cli.to_file = <<>> /\ cli.to_stdout = <<>>
               /\ cli.status = 1

\* C26 witness: -i without a file argument has exited after reading and
\* sorting a text that sorting changes.
C26_Witness ==
    /\ cli.pc = "exited"
    /\ cli.in_place /\ ~cli.file
    /\ cli.failure = "none"
    /\ cli.sorted # cli.content

\* C27: a NarrationInfo holds no tree node whose lifetime reaches beyond the
\* borrow of the tree it was taken under, and no node is read after the tree
\* has been released.
C27_NoEscapingNode ==
    lsp.pc \in {"found", "returned"} =>
        /\ lsp.info # NoInfo =>
             /\ lsp.info.narration_node.is = "node" =>
                    lsp.info.narration_node.lifetime = "tree_borrow"
             /\ lsp.info.transaction_node.is = "node" =>
                    lsp.info.transaction_node.lifetime = "tree_borrow"
        /\ ~lsp.used_after_release

\* How many of the directives ds are in section k and have the text t.
TimesIn(ds, k, t) ==
    Cardinality({i \in 1..Len(ds) : ds[i].section = k /\ ds[i].text = t})

\* C29: no entry is dropped, duplicated, merged or moved to another group:
\* the output's block of every group holds the verbatim texts of that
\* group's directives, each as often as the input's group holds it.
C29_NoEntryLostOrAdded ==
    Returned =>
        LET ci == SeenDirectives(content)
            co == SeenDirectives(output)
        IN /\ Len(co) = Len(ci)
           /\ \A i \in 1..Len(ci) :
                TimesIn(co, ci[i].section, ci[i].text)
                    = TimesIn(ci, ci[i].section, ci[i].text)

\* C29 witness: a reordering run over a group that holds the same entry
\* twice and a different one.
C29_Witness ==
    /\ Returned /\ path = "reconstructed"
    /\ output # content
    /\ \E k \in Sections(content) :
         \E i, j, l \in 1..Len(InSection(content, k)) :
            /\ i # j
            /\ InSection(content, k)[i].text = InSection(content, k)[j].text
            /\ InSection(content, k)[l].text # InSection(content, k)[i].text

====
